---- MODULE Spec2Model ----
(***************************************************************************)
(* Model of the Bego input synthesis facade (bego_win.cpp,                 *)
(* bego_keyboard.cpp, bego_mouse.cpp, key_converter.cpp, settings.cpp).     *)
(*                                                                         *)
(* One Bego instance is modelled from construction to destruction.  Each   *)
(* public operation is one action; the destructor is a sequence of steps,  *)
(* one per loop iteration, because every iteration calls key()/raw() and   *)
(* those calls change the very vectors the loops walk.                     *)
(***************************************************************************)
EXTENDS Integers, Sequences, FiniteSets, TLC

(***************************************************************************)
(* Bounds of the model.                                                    *)
(***************************************************************************)
MaxHeld == 3        \* longest held_keys vector explored
MaxHeldScans == 2   \* longest held_scancodes vector explored

(***************************************************************************)
(* Program constants.                                                      *)
(***************************************************************************)
EVENT_MARKER == 305419896      \* 0x12345678
MAPVK_VK_TO_VSC_EX == 4
MAPVK_VSC_TO_VK_EX == 3

Directions == {"Click", "Press", "Release"}

\* enum class Key, by enumerator name
Keys ==
  {"A","B","C","D","E","F","G","H","I","J","K","L","M",
   "N","O","P","Q","R","S","T","U","V","W","X","Y","Z",
   "Num0","Num1","Num2","Num3","Num4","Num5","Num6","Num7","Num8","Num9",
   "F1","F2","F3","F4","F5","F6","F7","F8","F9","F10","F11","F12",
   "F13","F14","F15","F16","F17","F18","F19","F20","F21","F22","F23","F24",
   "Return","Tab","Space","Backspace","Escape","Delete","CapsLock",
   "Control","Alt","Shift","Super","RightControl","RightAlt","RightShift",
   "RightSuper",
   "Up","Down","Left","Right","Home","End","PageUp","PageDown","Insert",
   "Numpad0","Numpad1","Numpad2","Numpad3","Numpad4",
   "Numpad5","Numpad6","Numpad7","Numpad8","Numpad9",
   "NumpadMultiply","NumpadAdd","NumpadSubtract","NumpadDivide",
   "NumpadDecimal",
   "PrintScreen","ScrollLock","Pause","Menu",
   "Unicode"}

\* A Key value outside the enumerators (static_cast<Key>(n) with n past
\* Key::Unicode): the only argument for which key_to_vk throws.
InvalidKey == "Invalid"

\* static key_map of key_to_vk
key_map ==
  [A |-> 65, B |-> 66, C |-> 67, D |-> 68, E |-> 69, F |-> 70, G |-> 71,
   H |-> 72, I |-> 73, J |-> 74, K |-> 75, L |-> 76, M |-> 77, N |-> 78,
   O |-> 79, P |-> 80, Q |-> 81, R |-> 82, S |-> 83, T |-> 84, U |-> 85,
   V |-> 86, W |-> 87, X |-> 88, Y |-> 89, Z |-> 90,
   Num0 |-> 48, Num1 |-> 49, Num2 |-> 50, Num3 |-> 51, Num4 |-> 52,
   Num5 |-> 53, Num6 |-> 54, Num7 |-> 55, Num8 |-> 56, Num9 |-> 57,
   F1 |-> 112, F2 |-> 113, F3 |-> 114, F4 |-> 115, F5 |-> 116, F6 |-> 117,
   F7 |-> 118, F8 |-> 119, F9 |-> 120, F10 |-> 121, F11 |-> 122,
   F12 |-> 123, F13 |-> 124, F14 |-> 125, F15 |-> 126, F16 |-> 127,
   F17 |-> 128, F18 |-> 129, F19 |-> 130, F20 |-> 131, F21 |-> 132,
   F22 |-> 133, F23 |-> 134, F24 |-> 135,
   Return |-> 13, Tab |-> 9, Space |-> 32, Backspace |-> 8, Escape |-> 27,
   Delete |-> 46, CapsLock |-> 20,
   Control |-> 17, Alt |-> 18, Shift |-> 16, Super |-> 91,
   RightControl |-> 163, RightAlt |-> 165, RightShift |-> 161,
   RightSuper |-> 92,
   Up |-> 38, Down |-> 40, Left |-> 37, Right |-> 39, Home |-> 36,
   End |-> 35, PageUp |-> 33, PageDown |-> 34, Insert |-> 45,
   Numpad0 |-> 96, Numpad1 |-> 97, Numpad2 |-> 98, Numpad3 |-> 99,
   Numpad4 |-> 100, Numpad5 |-> 101, Numpad6 |-> 102, Numpad7 |-> 103,
   Numpad8 |-> 104, Numpad9 |-> 105, NumpadMultiply |-> 106,
   NumpadAdd |-> 107, NumpadSubtract |-> 109, NumpadDivide |-> 111,
   NumpadDecimal |-> 110,
   PrintScreen |-> 44, ScrollLock |-> 145, Pause |-> 19, Menu |-> 93]

\* key_to_vk: [ok, vk]; ok = FALSE stands for the thrown Mapping error
key_to_vk(k) ==
  IF k \in DOMAIN key_map THEN [ok |-> TRUE, vk |-> key_map[k]]
  ELSE IF k = "Unicode" THEN [ok |-> TRUE, vk |-> 0]
  ELSE [ok |-> FALSE, vk |-> 0]

\* the switch of vk_to_key: case label :> enumerator returned
vk_switch ==
  65 :> "A" @@ 66 :> "B" @@ 67 :> "C" @@ 68 :> "D" @@ 69 :> "E" @@
  70 :> "F" @@ 71 :> "G" @@ 72 :> "H" @@ 73 :> "I" @@ 74 :> "J" @@
  75 :> "K" @@ 76 :> "L" @@ 77 :> "M" @@ 78 :> "N" @@ 79 :> "O" @@
  80 :> "P" @@ 81 :> "Q" @@ 82 :> "R" @@ 83 :> "S" @@ 84 :> "T" @@
  85 :> "U" @@ 86 :> "V" @@ 87 :> "W" @@ 88 :> "X" @@ 89 :> "Y" @@
  90 :> "Z" @@ 48 :> "Num0" @@ 49 :> "Num1" @@ 50 :> "Num2" @@
  51 :> "Num3" @@ 52 :> "Num4" @@ 53 :> "Num5" @@ 54 :> "Num6" @@
  55 :> "Num7" @@ 56 :> "Num8" @@ 57 :> "Num9" @@ 112 :> "F1" @@
  113 :> "F2" @@ 114 :> "F3" @@ 115 :> "F4" @@ 116 :> "F5" @@ 117 :> "F6" @@
  118 :> "F7" @@ 119 :> "F8" @@ 120 :> "F9" @@ 121 :> "F10" @@
  122 :> "F11" @@ 123 :> "F12" @@ 124 :> "F13" @@ 125 :> "F14" @@
  126 :> "F15" @@ 127 :> "F16" @@ 128 :> "F17" @@ 129 :> "F18" @@
  130 :> "F19" @@ 131 :> "F20" @@ 132 :> "F21" @@ 133 :> "F22" @@
  134 :> "F23" @@ 135 :> "F24" @@ 13 :> "Return" @@ 9 :> "Tab" @@
  32 :> "Space" @@ 8 :> "Backspace" @@ 27 :> "Escape" @@ 46 :> "Delete" @@
  20 :> "CapsLock" @@ 17 :> "Control" @@ 18 :> "Alt" @@ 16 :> "Shift" @@
  91 :> "Super" @@ 163 :> "RightControl" @@ 165 :> "RightAlt" @@
  161 :> "RightShift" @@ 92 :> "RightSuper" @@ 38 :> "Up" @@ 40 :> "Down" @@
  37 :> "Left" @@ 39 :> "Right" @@ 36 :> "Home" @@ 35 :> "End" @@
  33 :> "PageUp" @@ 34 :> "PageDown" @@ 45 :> "Insert" @@ 96 :> "Numpad0" @@
  97 :> "Numpad1" @@ 98 :> "Numpad2" @@ 99 :> "Numpad3" @@
  100 :> "Numpad4" @@ 101 :> "Numpad5" @@ 102 :> "Numpad6" @@
  103 :> "Numpad7" @@ 104 :> "Numpad8" @@ 105 :> "Numpad9" @@
  106 :> "NumpadMultiply" @@ 107 :> "NumpadAdd" @@ 109 :> "NumpadSubtract" @@
  111 :> "NumpadDivide" @@ 110 :> "NumpadDecimal" @@ 44 :> "PrintScreen" @@
  145 :> "ScrollLock" @@ 19 :> "Pause" @@ 93 :> "Menu"

\* variant of vk_to_key: the right-hand modifier codes VK_RSHIFT, VK_RCONTROL
\* and VK_RMENU are answered with the left-hand key
vk_to_key_LeftHand(vk) ==
  IF vk = 161 THEN [ok |-> TRUE, key |-> "Shift"]
  ELSE IF vk = 163 THEN [ok |-> TRUE, key |-> "Control"]
  ELSE IF vk = 165 THEN [ok |-> TRUE, key |-> "Alt"]
  ELSE IF vk \in DOMAIN vk_switch THEN [ok |-> TRUE, key |-> vk_switch[vk]]
  ELSE [ok |-> FALSE, key |-> "Mapping"]

\* vk_to_key: [ok, key]; ok = FALSE is the Mapping error of the default label
vk_to_key(vk) ==
  IF vk \in DOMAIN vk_switch THEN [ok |-> TRUE, key |-> vk_switch[vk]]
  ELSE [ok |-> FALSE, key |-> "Mapping"]

\* variant of is_extended_key: VK_DIVIDE is missing from the switch
is_extended_key_NoDivide(vk) ==
  vk \in {165, 163, 38, 40, 37, 39, 45, 46, 36, 35, 33, 34, 144, 44}

\* is_extended_key: VK_RMENU, VK_RCONTROL, VK_UP, VK_DOWN, VK_LEFT, VK_RIGHT,
\* VK_INSERT, VK_DELETE, VK_HOME, VK_END, VK_PRIOR, VK_NEXT, VK_NUMLOCK,
\* VK_SNAPSHOT, VK_DIVIDE
is_extended_key(vk) ==
  vk \in {165, 163, 38, 40, 37, 39, 45, 46, 36, 35, 33, 34, 144, 44, 111}

\* The layout service behind translate_key (MapVirtualKeyEx): a fragment of
\* the US layout; 0 is "no mapping", which translate_key passes on.
LayoutVkToVsc ==
  [vk \in 0..255 |->
     CASE vk = 65 -> 30        \* 'A'        -> 0x1E
       [] vk = 13 -> 28        \* VK_RETURN  -> 0x1C
       [] vk = 9  -> 15        \* VK_TAB     -> 0x0F
       [] vk = 38 -> 57416     \* VK_UP      -> 0xE048
       [] vk = 163 -> 57373    \* VK_RCONTROL-> 0xE01D
       [] OTHER -> 0]

LayoutVscToVk(scan) ==
  CASE scan = 30 -> 65
    [] scan = 28 -> 13
    [] scan = 15 -> 9
    [] scan = 57416 -> 38
    [] scan = 57373 -> 163
    [] OTHER -> 0

translate_key(input, map_type) ==
  IF map_type = MAPVK_VK_TO_VSC_EX
    THEN (IF input \in DOMAIN LayoutVkToVsc THEN LayoutVkToVsc[input] ELSE 0)
    ELSE LayoutVscToVk(input)

\* create_keybd_event: the INPUT structure as a record
create_keybd_event(flags, vk, scan, extra) ==
  [type |-> "keyboard", flags |-> flags, vk |-> vk, scan |-> scan,
   extra |-> extra]

(***************************************************************************)
(* Inputs explored by the actions.                                         *)
(***************************************************************************)
CallKeys == {"A", "Up", "Unicode", InvalidKey}
CallScans == {30}            \* 0x1E, the scan code of 'A'
\* Settings() as constructed by default, and two Settings objects whose
\* fields were changed after construction
DefaultSettings ==
  [windows_dw_extra_info |-> EVENT_MARKER,
   release_keys_when_dropped |-> TRUE,
   windows_subject_to_mouse_speed_and_acceleration_level |-> FALSE]
SettingsSet ==
  {DefaultSettings,
   [windows_dw_extra_info |-> 0,
    release_keys_when_dropped |-> FALSE,
    windows_subject_to_mouse_speed_and_acceleration_level |-> TRUE],
   [windows_dw_extra_info |-> 7,
    release_keys_when_dropped |-> TRUE,
    windows_subject_to_mouse_speed_and_acceleration_level |-> TRUE]}

VARIABLES
  held_keys,                   \* std::vector<Key>
  held_scancodes,              \* std::vector<ScanCode>
  release_keys_when_dropped,
  dw_extra_info,
  windows_subject_to_mouse_speed_and_acceleration_level,
  pc,                          \* "live", "keys", "scans", "done", "aborted"
  sent,                        \* batches handed to send_input by the last call
  lastOp,                      \* the last call: [op, id, dir, result]
  roundTrip,                   \* history: the last two calls were a successful
                               \* Press of an identifier that was not held and
                               \* a successful Release of the same identifier
  before,                      \* held() as it was when the last call began
  it,                          \* destructor: 0-based position of the loop iterator
  end0,                        \* destructor: end() as cached when the loop began
  buf,                         \* destructor: storage of the vector being walked
  orphaned,                    \* destructor: the loop's iterators were invalidated
  atStart,                     \* held() when the destructor began
  attempts,                    \* Release calls made by the destructor
  settings,                    \* the Settings the constructor was given
  ret,                         \* what the last converter call returned
  lastPress                    \* history: the keys and the scan codes whose
                               \* latest successful Press or Release call
                               \* was a Press

vars ==
  <<held_keys, held_scancodes, release_keys_when_dropped, dw_extra_info,
    windows_subject_to_mouse_speed_and_acceleration_level, pc, sent, lastOp,
    roundTrip, before, it, end0, buf, orphaned, atStart, attempts,
    settings, ret, lastPress>>

config == <<release_keys_when_dropped, dw_extra_info,
            windows_subject_to_mouse_speed_and_acceleration_level, settings>>
dtor == <<it, end0, buf, orphaned, atStart, attempts>>

NoOp == [op |-> "none", id |-> 0, dir |-> "none", result |-> "none",
         sink |-> "unused"]
\* no converter has been called
NoRet == [ok |-> FALSE, key |-> "none"]
\* Bego::get_marker_value
get_marker_value == dw_extra_info
held == [keys |-> held_keys, scans |-> held_scancodes]

Range(s) == {s[i] : i \in 1..Len(s)}

\* variant of EraseRemove: std::remove without the erase, the size stays
EraseRemove_NoErase(s, v) == s

\* variant of EraseRemove: std::find + erase, the first element equal to v
\* goes
EraseRemove_FirstOnly(s, v) ==
  LET at == {i \in 1..Len(s) : s[i] = v}
      first == CHOOSE i \in at : \A j \in at : i <= j
  IN IF at = {} THEN s
     ELSE SubSeq(s, 1, first - 1) \o SubSeq(s, first + 1, Len(s))

\* std::remove + erase: every element equal to v goes, order kept
RECURSIVE EraseRemove(_, _)
EraseRemove(s, v) ==
  IF s = <<>> THEN <<>>
  ELSE IF Head(s) = v THEN EraseRemove(Tail(s), v)
  ELSE <<Head(s)>> \o EraseRemove(Tail(s), v)

\* variant of Init: the marker of the Settings is taken as it is
Init_MarkerAsGiven ==
  /\ settings \in SettingsSet
  /\ release_keys_when_dropped = settings.release_keys_when_dropped
  /\ dw_extra_info = settings.windows_dw_extra_info
  /\ windows_subject_to_mouse_speed_and_acceleration_level =
       settings.windows_subject_to_mouse_speed_and_acceleration_level
  /\ ret = NoRet
  /\ lastPress = [keys |-> {}, scans |-> {}]
  /\ held_keys = <<>>
  /\ held_scancodes = <<>>
  /\ pc = "live"
  /\ sent = <<>>
  /\ lastOp = NoOp
  /\ roundTrip = FALSE
  /\ before = [keys |-> <<>>, scans |-> <<>>]
  /\ it = 0
  /\ end0 = 0
  /\ buf = <<>>
  /\ orphaned = FALSE
  /\ atStart = [keys |-> <<>>, scans |-> <<>>]
  /\ attempts = <<>>

\* Bego::Bego
Init ==
  /\ settings \in SettingsSet
  /\ release_keys_when_dropped = settings.release_keys_when_dropped
  /\ dw_extra_info =
       (IF settings.windows_dw_extra_info # 0
          THEN settings.windows_dw_extra_info ELSE EVENT_MARKER)
  /\ windows_subject_to_mouse_speed_and_acceleration_level =
       settings.windows_subject_to_mouse_speed_and_acceleration_level
  /\ ret = NoRet
  /\ lastPress = [keys |-> {}, scans |-> {}]
  /\ held_keys = <<>>
  /\ held_scancodes = <<>>
  /\ pc = "live"
  /\ sent = <<>>
  /\ lastOp = NoOp
  /\ roundTrip = FALSE
  /\ before = [keys |-> <<>>, scans |-> <<>>]
  /\ it = 0
  /\ end0 = 0
  /\ buf = <<>>
  /\ orphaned = FALSE
  /\ atStart = [keys |-> <<>>, scans |-> <<>>]
  /\ attempts = <<>>

\* variant of DownUp: the key-up event is built without the marker
DownUp_UpUnmarked(d, keyflags, vk, scan, extra) ==
  (IF d \in {"Click", "Press"}
     THEN <<create_keybd_event(keyflags, vk, scan, extra)>> ELSE <<>>)
  \o
  (IF d \in {"Click", "Release"}
     THEN <<create_keybd_event(keyflags \cup {"KEYUP"}, vk, scan, 0)>>
     ELSE <<>>)

\* the down/up policy shared by queue_key and raw
DownUp(d, keyflags, vk, scan, extra) ==
  (IF d \in {"Click", "Press"}
     THEN <<create_keybd_event(keyflags, vk, scan, extra)>> ELSE <<>>)
  \o
  (IF d \in {"Click", "Release"}
     THEN <<create_keybd_event(keyflags \cup {"KEYUP"}, vk, scan, extra)>>
     ELSE <<>>)

\* Bego::queue_key: [ok, queue]; ok = FALSE is the rethrown Mapping error
queue_key(input_queue, k, d, extra) ==
  LET m == key_to_vk(k)
      scan == translate_key(m.vk, MAPVK_VK_TO_VSC_EX)
      keyflags == IF is_extended_key(m.vk) THEN {"EXTENDEDKEY"} ELSE {}
  IN IF ~m.ok THEN [ok |-> FALSE, queue |-> input_queue]
     ELSE [ok |-> TRUE,
           queue |-> input_queue \o DownUp(d, keyflags, m.vk, scan, extra)]

\* send_input: one call to the injection sink with the whole batch; a
\* refusal by the sink is thrown as a Simulate error
send_input(batch, sinkOk) ==
  [calls |-> <<batch>>,
   result |-> IF sinkOk THEN "ok" ELSE "Simulate",
   sink |-> IF sinkOk THEN "ok" ELSE "failed"]

\* an operation that threw before it reached send_input
Thrown(type) == [calls |-> <<>>, result |-> type, sink |-> "unused"]

\* an operation that returned without reaching send_input
Returned == [calls |-> <<>>, result |-> "ok", sink |-> "unused"]

\* variant of UpdateHeld: Release drops the newest entry, whatever it is
UpdateHeld_PopBack(v, id, d) ==
  CASE d = "Press" -> Append(v, id)
    [] d = "Release" -> (IF v = <<>> THEN v ELSE SubSeq(v, 1, Len(v) - 1))
    [] OTHER -> v

\* variant of UpdateHeld: Click falls through to the Press case
UpdateHeld_ClickPushes(v, id, d) ==
  CASE d \in {"Press", "Click"} -> Append(v, id)
    [] d = "Release" -> EraseRemove(v, id)
    [] OTHER -> v

\* the switch at the end of key() and raw()
UpdateHeld(v, id, d) ==
  CASE d = "Press" -> Append(v, id)
    [] d = "Release" -> EraseRemove(v, id)
    [] OTHER -> v

\* variant of Commit: the vector is updated before the batch is sent
Commit_BeforeSend(result, v, id, d) == UpdateHeld(v, id, d)

\* the switch is reached only when queue_key and send_input have returned
Commit(result, v, id, d) ==
  IF result = "ok" THEN UpdateHeld(v, id, d) ELSE v

\* history: the last call was a successful Press, by operation op, of the
\* identifier id, which was not held when that call began
FreshPress(op, id, heldThen) ==
  /\ lastOp.op = op
  /\ lastOp.dir = "Press"
  /\ lastOp.result = "ok"
  /\ lastOp.id = id
  /\ id \notin Range(heldThen)

\* history: the identifiers whose latest successful Press or Release was
\* a Press, after a call that ended with result
LastPressAfter(result, ids, id, d) ==
  IF result = "ok" /\ d = "Press" THEN ids \cup {id}
  ELSE IF result = "ok" /\ d = "Release" THEN ids \ {id}
  ELSE ids

\* what every call records about itself
Record(op, id, d, r) ==
  /\ sent' = r.calls
  /\ lastOp' = [op |-> op, id |-> id, dir |-> d, result |-> r.result,
                sink |-> r.sink]
  /\ before' = held

\* variant of key: a Click is sent as a Press batch and a Release batch
key_ClickTwoCalls(k, d, sinkOk) ==
  LET q == queue_key(<<>>, k, d, dw_extra_info)
      r == IF ~q.ok THEN Thrown("Mapping")
           ELSE IF d = "Click"
             THEN [calls |-> <<SubSeq(q.queue, 1, 1), SubSeq(q.queue, 2, 2)>>,
                   result |-> IF sinkOk THEN "ok" ELSE "Simulate",
                   sink |-> IF sinkOk THEN "ok" ELSE "failed"]
           ELSE send_input(q.queue, sinkOk)
  IN /\ Record("key", k, d, r)
     /\ roundTrip' = (/\ d = "Release"
                      /\ r.result = "ok"
                      /\ FreshPress("key", k, before.keys))
     /\ held_keys' = Commit(r.result, held_keys, k, d)
     /\ held_scancodes' = held_scancodes
     /\ lastPress' = [lastPress EXCEPT
                        !.keys = LastPressAfter(r.result, @, k, d)]

\* Bego::key.  sinkOk is the verdict of the injection sink for this call.
key(k, d, sinkOk) ==
  LET q == queue_key(<<>>, k, d, dw_extra_info)
      r == IF q.ok THEN send_input(q.queue, sinkOk) ELSE Thrown("Mapping")
  IN /\ Record("key", k, d, r)
     /\ roundTrip' = (/\ d = "Release"
                      /\ r.result = "ok"
                      /\ FreshPress("key", k, before.keys))
     /\ held_keys' = Commit(r.result, held_keys, k, d)
     /\ held_scancodes' = held_scancodes
     /\ lastPress' = [lastPress EXCEPT
                        !.keys = LastPressAfter(r.result, @, k, d)]

\* variant of raw: the events are built like those of key(), without
\* KEYEVENTF_SCANCODE
raw_NoScancodeFlag(scan, d, sinkOk) ==
  LET vk == translate_key(scan, MAPVK_VSC_TO_VK_EX)
      keyflags == IF is_extended_key(vk) THEN {"EXTENDEDKEY"} ELSE {}
      input == DownUp(d, keyflags, vk, scan, dw_extra_info)
      r == send_input(input, sinkOk)
  IN /\ Record("raw", scan, d, r)
     /\ roundTrip' = (/\ d = "Release"
                      /\ r.result = "ok"
                      /\ FreshPress("raw", scan, before.scans))
     /\ held_scancodes' = Commit(r.result, held_scancodes, scan, d)
     /\ held_keys' = held_keys
     /\ lastPress' = [lastPress EXCEPT
                        !.scans = LastPressAfter(r.result, @, scan, d)]

\* Bego::raw
raw(scan, d, sinkOk) ==
  LET vk == translate_key(scan, MAPVK_VSC_TO_VK_EX)
      keyflags == {"SCANCODE"} \cup
                  (IF is_extended_key(vk) THEN {"EXTENDEDKEY"} ELSE {})
      input == DownUp(d, keyflags, vk, scan, dw_extra_info)
      r == send_input(input, sinkOk)
  IN /\ Record("raw", scan, d, r)
     /\ roundTrip' = (/\ d = "Release"
                      /\ r.result = "ok"
                      /\ FreshPress("raw", scan, before.scans))
     /\ held_scancodes' = Commit(r.result, held_scancodes, scan, d)
     /\ held_keys' = held_keys
     /\ lastPress' = [lastPress EXCEPT
                        !.scans = LastPressAfter(r.result, @, scan, d)]

\* static_cast<wchar_t>(c) for the 16-bit wchar_t of the Windows targets
ToWchar(c) == c % 65536

\* variant of queue_char: the key-up event is queued before the key-down
queue_char_UpFirst(input_queue, character, buffer, extra) ==
  input_queue
  \o << create_keybd_event({"UNICODE", "KEYUP"}, 0, character, extra),
        create_keybd_event({"UNICODE"}, 0, character, extra) >>

\* Bego::queue_char.  buffer is text()'s std::array<uint16_t, 2>, which
\* nothing ever writes.
queue_char(input_queue, character, buffer, extra) ==
  LET utf16_high == IF character >= 65536 THEN buffer[1] ELSE character
      utf16_low == IF character >= 65536 THEN buffer[2] ELSE 0
  IN input_queue
     \o << create_keybd_event({"UNICODE"}, 0, utf16_high, extra),
           create_keybd_event({"UNICODE", "KEYUP"}, 0, utf16_high, extra) >>
     \o (IF utf16_low # 0
           THEN << create_keybd_event({"UNICODE"}, 0, utf16_low, extra),
                   create_keybd_event({"UNICODE", "KEYUP"}, 0, utf16_low,
                                      extra) >>
           ELSE <<>>)

\* variant of TextLoop: a carriage return is typed like any other
\* character, by Unicode injection
TextLoop_CrInjected(rest, input, buffer, extra) ==
  LET q[i \in 0..Len(rest)] ==
        IF i = 0 THEN input
        ELSE IF rest[i] = 10
          THEN queue_key(q[i - 1], "Return", "Click", extra).queue
        ELSE IF rest[i] = 9
          THEN queue_key(q[i - 1], "Tab", "Click", extra).queue
        ELSE queue_char(q[i - 1], ToWchar(rest[i]), buffer, extra)
      nul == {i \in 1..Len(rest) : rest[i] = 0}
      stop == IF nul = {} THEN Len(rest)
              ELSE (CHOOSE i \in nul : \A j \in nul : i <= j) - 1
  IN [ok |-> nul = {}, queue |-> q[stop]]

\* the for loop of text(): [ok, queue]; ok = FALSE is the InvalidInput
\* thrown at a null character
RECURSIVE TextLoop(_, _, _, _)
TextLoop(rest, input, buffer, extra) ==
  IF rest = <<>> THEN [ok |-> TRUE, queue |-> input]
  ELSE LET c == Head(rest)
       IN CASE c = 10 -> TextLoop(Tail(rest),
                           queue_key(input, "Return", "Click", extra).queue,
                           buffer, extra)
            [] c = 13 -> TextLoop(Tail(rest),
                           queue_key(input, "Return", "Click", extra).queue,
                           buffer, extra)
            [] c = 9 -> TextLoop(Tail(rest),
                          queue_key(input, "Tab", "Click", extra).queue,
                          buffer, extra)
            [] c = 0 -> [ok |-> FALSE, queue |-> input]
            [] OTHER -> TextLoop(Tail(rest),
                          queue_char(input, ToWchar(c), buffer, extra),
                          buffer, extra)

\* variant of text: what was queued is sent before the null byte is reported
text_FlushBeforeThrow(txt, buffer, sinkOk) ==
  LET q == TextLoop(txt, <<>>, buffer, dw_extra_info)
      r == IF txt = <<>> THEN Returned
           ELSE IF ~q.ok
             THEN [calls |-> <<q.queue>>, result |-> "InvalidInput",
                   sink |-> IF sinkOk THEN "ok" ELSE "failed"]
           ELSE send_input(q.queue, sinkOk)
  IN /\ Record("text", txt, "none", r)
     /\ roundTrip' = FALSE
     /\ UNCHANGED <<held_keys, held_scancodes, lastPress>>

\* Bego::text.  txt is the std::string as a sequence of char values.
text(txt, buffer, sinkOk) ==
  LET q == TextLoop(txt, <<>>, buffer, dw_extra_info)
      r == IF txt = <<>> THEN Returned
           ELSE IF ~q.ok THEN Thrown("InvalidInput")
           ELSE send_input(q.queue, sinkOk)
  IN /\ Record("text", txt, "none", r)
     /\ roundTrip' = FALSE
     /\ UNCHANGED <<held_keys, held_scancodes, lastPress>>

\* create_mouse_event: the INPUT structure as a record
create_mouse_event(flags, data, dx, dy, extra) ==
  [type |-> "mouse", flags |-> flags, data |-> data, dx |-> dx, dy |-> dy,
   extra |-> extra]

WHEEL_DELTA == 120

\* variant of scroll: the vertical amount is not inverted
scroll_NotInverted(length, axis, extra, sinkOk) ==
  LET flags == IF axis = "Horizontal" THEN {"HWHEEL"} ELSE {"WHEEL"}
  IN send_input(<<create_mouse_event(flags, length * 120, 0, 0, extra)>>,
                sinkOk)

\* Bego::scroll: the outcome of the call
scroll(length, axis, extra, sinkOk) ==
  LET flags == IF axis = "Horizontal" THEN {"HWHEEL"} ELSE {"WHEEL"}
      data == IF axis = "Horizontal" THEN length * WHEEL_DELTA
              ELSE (-length) * WHEEL_DELTA
  IN send_input(<<create_mouse_event(flags, data, 0, 0, extra)>>, sinkOk)

Buttons == {"Left", "Middle", "Right", "Back", "Forward",
            "ScrollUp", "ScrollDown", "ScrollLeft", "ScrollRight"}
ScrollButtons == {"ScrollUp", "ScrollDown", "ScrollLeft", "ScrollRight"}
\* a Button value outside the enumerators
InvalidButton == "InvalidButton"

\* the two switches of button(): the flag of a real button
DownFlag(b) ==
  CASE b = "Left" -> "LEFTDOWN"
    [] b = "Middle" -> "MIDDLEDOWN"
    [] b = "Right" -> "RIGHTDOWN"
    [] b \in {"Back", "Forward"} -> "XDOWN"
UpFlag(b) ==
  CASE b = "Left" -> "LEFTUP"
    [] b = "Middle" -> "MIDDLEUP"
    [] b = "Right" -> "RIGHTUP"
    [] b \in {"Back", "Forward"} -> "XUP"

\* variant of button: a scroll pseudo-button is a button without a flag of
\* its own, its Press and Release send an event each
button_PseudoIsReal(b, d, extra, sinkOk) ==
  LET button_no == IF b = "Back" THEN 1 ELSE IF b = "Forward" THEN 2 ELSE 0
      downFlag == IF b \in ScrollButtons THEN {} ELSE {DownFlag(b)}
      upFlag == IF b \in ScrollButtons THEN {} ELSE {UpFlag(b)}
      down == <<create_mouse_event(downFlag, button_no, 0, 0, extra)>>
      up == <<create_mouse_event(upFlag, button_no, 0, 0, extra)>>
  IN IF b \notin Buttons THEN Thrown("InvalidInput")
     ELSE send_input((IF d \in {"Click", "Press"} THEN down ELSE <<>>)
                     \o (IF d \in {"Click", "Release"} THEN up ELSE <<>>),
                     sinkOk)

\* variant of button: the up event of an extended button carries no index
button_UpWithoutIndex(b, d, extra, sinkOk) ==
  LET button_no == IF b = "Back" THEN 1 ELSE IF b = "Forward" THEN 2 ELSE 0
      down == <<create_mouse_event({DownFlag(b)}, button_no, 0, 0, extra)>>
      up == <<create_mouse_event({UpFlag(b)}, 0, 0, 0, extra)>>
  IN IF d \in {"Click", "Press"} /\ b \in ScrollButtons
       THEN CASE b = "ScrollUp" -> scroll(-1, "Vertical", extra, sinkOk)
              [] b = "ScrollDown" -> scroll(1, "Vertical", extra, sinkOk)
              [] b = "ScrollLeft" -> scroll(-1, "Horizontal", extra, sinkOk)
              [] b = "ScrollRight" -> scroll(1, "Horizontal", extra, sinkOk)
     ELSE IF b \notin Buttons THEN Thrown("InvalidInput")
     ELSE IF b \in ScrollButtons THEN Returned
     ELSE send_input((IF d \in {"Click", "Press"} THEN down ELSE <<>>)
                     \o (IF d \in {"Click", "Release"} THEN up ELSE <<>>),
                     sinkOk)

\* variant of button: a Click sends the down and the up event separately
button_TwoCalls(b, d, extra, sinkOk) ==
  LET button_no == IF b = "Back" THEN 1 ELSE IF b = "Forward" THEN 2 ELSE 0
      down == <<create_mouse_event({DownFlag(b)}, button_no, 0, 0, extra)>>
      up == <<create_mouse_event({UpFlag(b)}, button_no, 0, 0, extra)>>
  IN IF d \in {"Click", "Press"} /\ b \in ScrollButtons
       THEN CASE b = "ScrollUp" -> scroll(-1, "Vertical", extra, sinkOk)
              [] b = "ScrollDown" -> scroll(1, "Vertical", extra, sinkOk)
              [] b = "ScrollLeft" -> scroll(-1, "Horizontal", extra, sinkOk)
              [] b = "ScrollRight" -> scroll(1, "Horizontal", extra, sinkOk)
     ELSE IF b \notin Buttons THEN Thrown("InvalidInput")
     ELSE IF b \in ScrollButtons THEN Returned
     ELSE IF d = "Click"
       THEN [calls |-> <<down, up>>,
             result |-> IF sinkOk THEN "ok" ELSE "Simulate",
             sink |-> IF sinkOk THEN "ok" ELSE "failed"]
     ELSE send_input((IF d = "Press" THEN down ELSE up), sinkOk)

\* Bego::button: the outcome of the call
button(b, d, extra, sinkOk) ==
  LET button_no == IF b = "Back" THEN 1 ELSE IF b = "Forward" THEN 2 ELSE 0
      down == <<create_mouse_event({DownFlag(b)}, button_no, 0, 0, extra)>>
      up == <<create_mouse_event({UpFlag(b)}, button_no, 0, 0, extra)>>
  IN IF d \in {"Click", "Press"} /\ b \in ScrollButtons
       THEN CASE b = "ScrollUp" -> scroll(-1, "Vertical", extra, sinkOk)
              [] b = "ScrollDown" -> scroll(1, "Vertical", extra, sinkOk)
              [] b = "ScrollLeft" -> scroll(-1, "Horizontal", extra, sinkOk)
              [] b = "ScrollRight" -> scroll(1, "Horizontal", extra, sinkOk)
     ELSE IF b \notin Buttons THEN Thrown("InvalidInput")
     ELSE IF b \in ScrollButtons THEN Returned
     ELSE send_input((IF d \in {"Click", "Press"} THEN down ELSE <<>>)
                     \o (IF d \in {"Click", "Release"} THEN up ELSE <<>>),
                     sinkOk)

\* variant of CDiv: the quotient is rounded down
CDiv_Floor(a, b) == a \div b

\* int division of C++: the quotient is truncated toward zero (b > 0)
CDiv(a, b) == IF a >= 0 THEN a \div b ELSE -((-a) \div b)

\* Bego::main_display over what GetSystemMetrics reports
main_display(display) ==
  IF display[1] = 0 \/ display[2] = 0
    THEN [ok |-> FALSE, width |-> 0, height |-> 0]
    ELSE [ok |-> TRUE, width |-> display[1], height |-> display[2]]

\* variant of location: the verdict of GetCursorPos is not looked at
location_Unchecked(cursor) == [ok |-> TRUE, x |-> cursor.x, y |-> cursor.y]

\* Bego::location over what GetCursorPos reports
location(cursor) ==
  IF ~cursor.ok THEN [ok |-> FALSE, x |-> 0, y |-> 0]
  ELSE [ok |-> TRUE, x |-> cursor.x, y |-> cursor.y]

\* variant of move_mouse: half of the dimension, not of the dimension less
\* one, is added before the division
move_mouse_HalfDim(x, y, coordinate, display, cursor, accel, extra, sinkOk) ==
  LET md == main_display(display)
      loc == location(cursor)
      w == md.width - 1
      h == md.height - 1
      ax == IF coordinate = "Abs" THEN x ELSE loc.x + x
      ay == IF coordinate = "Abs" THEN y ELSE loc.y + y
      dx == CDiv(ax * 65535
                 + CDiv(md.width, 2) * (IF ax >= 0 THEN 1 ELSE -1), w)
      dy == CDiv(ay * 65535
                 + CDiv(md.height, 2) * (IF ay >= 0 THEN 1 ELSE -1), h)
  IN IF coordinate # "Abs" /\ accel
       THEN send_input(<<create_mouse_event({"MOVE"}, 0, x, y, extra)>>,
                       sinkOk)
     ELSE IF coordinate # "Abs" /\ ~loc.ok THEN Thrown("Simulate")
     ELSE IF ~md.ok THEN Thrown("Simulate")
     ELSE send_input(<<create_mouse_event({"MOVE", "ABSOLUTE"}, 0,
                                          dx, dy, extra)>>, sinkOk)

\* variant of move_mouse: every relative move asks for the pointer position
\* first
move_mouse_RelQueries(x, y, coordinate, display, cursor, accel, extra, sinkOk) ==
  LET md == main_display(display)
      loc == location(cursor)
      w == md.width - 1
      h == md.height - 1
      ax == IF coordinate = "Abs" THEN x ELSE loc.x + x
      ay == IF coordinate = "Abs" THEN y ELSE loc.y + y
      dx == CDiv(ax * 65535 + CDiv(w, 2) * (IF ax >= 0 THEN 1 ELSE -1), w)
      dy == CDiv(ay * 65535 + CDiv(h, 2) * (IF ay >= 0 THEN 1 ELSE -1), h)
  IN IF coordinate # "Abs" /\ ~loc.ok THEN Thrown("Simulate")
     ELSE IF coordinate # "Abs" /\ accel
       THEN send_input(<<create_mouse_event({"MOVE"}, 0, x, y, extra)>>,
                       sinkOk)
     ELSE IF ~md.ok THEN Thrown("Simulate")
     ELSE send_input(<<create_mouse_event({"MOVE", "ABSOLUTE"}, 0,
                                          dx, dy, extra)>>, sinkOk)

\* variant of move_mouse: a relative move without acceleration takes the
\* distances for the position
move_mouse_NoCursor(x, y, coordinate, display, cursor, accel, extra, sinkOk) ==
  LET md == main_display(display)
      loc == location(cursor)
      w == md.width - 1
      h == md.height - 1
      dx == CDiv(x * 65535 + CDiv(w, 2) * (IF x >= 0 THEN 1 ELSE -1), w)
      dy == CDiv(y * 65535 + CDiv(h, 2) * (IF y >= 0 THEN 1 ELSE -1), h)
  IN IF coordinate # "Abs" /\ accel
       THEN send_input(<<create_mouse_event({"MOVE"}, 0, x, y, extra)>>,
                       sinkOk)
     ELSE IF coordinate # "Abs" /\ ~loc.ok THEN Thrown("Simulate")
     ELSE IF ~md.ok THEN Thrown("Simulate")
     ELSE send_input(<<create_mouse_event({"MOVE", "ABSOLUTE"}, 0,
                                          dx, dy, extra)>>, sinkOk)

\* Bego::move_mouse: the outcome of the call
RECURSIVE move_mouse(_, _, _, _, _, _, _, _)
move_mouse(x, y, coordinate, display, cursor, accel, extra, sinkOk) ==
  IF coordinate = "Abs"
    THEN LET md == main_display(display)
             w == md.width - 1
             h == md.height - 1
             dx == CDiv(x * 65535 + CDiv(w, 2) * (IF x >= 0 THEN 1 ELSE -1), w)
             dy == CDiv(y * 65535 + CDiv(h, 2) * (IF y >= 0 THEN 1 ELSE -1), h)
         IN IF ~md.ok THEN Thrown("Simulate")
            ELSE send_input(<<create_mouse_event({"MOVE", "ABSOLUTE"}, 0,
                                                 dx, dy, extra)>>, sinkOk)
  ELSE IF accel
    THEN send_input(<<create_mouse_event({"MOVE"}, 0, x, y, extra)>>, sinkOk)
  ELSE LET loc == location(cursor)
       IN IF ~loc.ok THEN Thrown("Simulate")
          ELSE move_mouse(loc.x + x, loc.y + y, "Abs", display, cursor,
                          accel, extra, sinkOk)

(***************************************************************************)
(* Inputs explored by the calls.                                           *)
(***************************************************************************)
MaxTextLen == 2     \* longest std::string passed to text()
\* char values: NUL, tab, newline, carriage return, 'A', and a byte with
\* the top bit set (0xE9 as a signed char)
TextChars == {0, 9, 10, 13, 65, -23}
RECURSIVE StringsUpTo(_, _)
StringsUpTo(chars, n) ==
  IF n = 0 THEN {<<>>}
  ELSE LET shorter == StringsUpTo(chars, n - 1)
       IN shorter \cup {Append(s, c) : s \in shorter, c \in chars}
\* what the never-written std::array of text() may hold
BufferValues == {<<0, 0>>, <<55357, 56832>>}
Axes == {"Horizontal", "Vertical"}
Coordinates == {"Abs", "Rel"}
\* GetCursorPos: a refusal, or a position
Cursors == {[ok |-> FALSE, x |-> 0, y |-> 0], [ok |-> TRUE, x |-> 1, y |-> 1]}

MaxAstral == 15     \* codepoints explored above U+1F600
\* a byte of a std::string as the signed char text() reads
SignedChar(b) == IF b >= 128 THEN b - 256 ELSE b
\* the std::string holding the character cp, in UTF-8
Utf8(cp) ==
  IF cp < 128 THEN <<cp>>
  ELSE IF cp < 2048
    THEN <<SignedChar(192 + (cp \div 64)), SignedChar(128 + (cp % 64))>>
  ELSE IF cp < 65536
    THEN <<SignedChar(224 + (cp \div 4096)),
           SignedChar(128 + ((cp \div 64) % 64)),
           SignedChar(128 + (cp % 64))>>
  ELSE <<SignedChar(240 + (cp \div 262144)),
         SignedChar(128 + ((cp \div 4096) % 64)),
         SignedChar(128 + ((cp \div 64) % 64)),
         SignedChar(128 + (cp % 64))>>
\* characters passed to text(): 'A', U+00E9, U+20AC, and U+1F600 onwards
Codepoints == {65, 233, 8364} \cup (128512..(128512 + MaxAstral))

MaxCoord == 4       \* largest small coordinate or distance passed to move_mouse
MaxScroll == 3      \* largest amount passed to scroll
\* x arguments: small values of both signs, a column inside a 1920-pixel
\* display and its last column; y arguments likewise, the last row of 1080
MoveXs == (-MaxCoord..MaxCoord) \cup {83, 1919}
MoveYs == {-1, 1, 1079}
\* GetSystemMetrics: a refusal (zeros), or the size of the main display
Displays == {<<0, 0>>, <<0, 1080>>, <<2, 2>>, <<5, 4>>, <<1920, 1080>>}
ScrollLengths == -MaxScroll..MaxScroll

(***************************************************************************)
(* Calls made by the owner of the instance while it is alive, with the     *)
(* arguments drawn from the given sets.  A Press is explored only while    *)
(* the vector is shorter than n.                                           *)
(***************************************************************************)
CallKeyOf(keys, n) ==
  /\ pc = "live"
  /\ \E k \in keys, d \in Directions, sinkOk \in BOOLEAN :
       /\ d = "Press" => Len(held_keys) < n
       /\ key(k, d, sinkOk)
  /\ UNCHANGED <<config, ret, pc, dtor>>

CallRawOf(scans, n) ==
  /\ pc = "live"
  /\ \E s \in scans, d \in Directions, sinkOk \in BOOLEAN :
       /\ d = "Press" => Len(held_scancodes) < n
       /\ raw(s, d, sinkOk)
  /\ UNCHANGED <<config, ret, pc, dtor>>

CallTextOf(chars, n) ==
  /\ pc = "live"
  /\ \E txt \in StringsUpTo(chars, n), buffer \in BufferValues,
        sinkOk \in BOOLEAN :
       text(txt, buffer, sinkOk)
  /\ UNCHANGED <<config, ret, pc, dtor>>

\* variant of MouseCall: a mouse button that was pressed is listed among
\* the held keys
MouseCall_HoldsButton(op, id, d, r) ==
  /\ pc = "live"
  /\ Record(op, id, d, r)
  /\ roundTrip' = FALSE
  /\ held_keys' = IF op = "button" /\ d = "Press" /\ r.result = "ok"
                    THEN Append(held_keys, id) ELSE held_keys
  /\ UNCHANGED <<held_scancodes, lastPress, config, ret, pc, dtor>>

\* a call of a mouse operation: nothing but the sink is touched
MouseCall(op, id, d, r) ==
  /\ pc = "live"
  /\ Record(op, id, d, r)
  /\ roundTrip' = FALSE
  /\ UNCHANGED <<held_keys, held_scancodes, lastPress, config, ret, pc, dtor>>

CallButtonOf(buttons) ==
  \E b \in buttons, d \in Directions, sinkOk \in BOOLEAN :
    MouseCall("button", b, d, button(b, d, dw_extra_info, sinkOk))

CallScrollOf(lengths) ==
  \E length \in lengths, axis \in Axes, sinkOk \in BOOLEAN :
    MouseCall("scroll", <<length, axis>>, "none",
              scroll(length, axis, dw_extra_info, sinkOk))

CallMoveOf(xs, ys, displays) ==
  \E x \in xs, y \in ys, coordinate \in Coordinates,
     display \in displays, cursor \in Cursors, sinkOk \in BOOLEAN :
    MouseCall("move_mouse",
              [x |-> x, y |-> y, coordinate |-> coordinate,
               display |-> display, cursor |-> cursor],
              "none",
              move_mouse(x, y, coordinate, display, cursor,
                         windows_subject_to_mouse_speed_and_acceleration_level,
                         dw_extra_info, sinkOk))

\* a caller converting a Key to its virtual-key code and back; a Mapping
\* error of either converter ends the conversion
ConvertKey ==
  \E k \in Keys \cup {InvalidKey} :
    LET v == key_to_vk(k)
        back == IF v.ok THEN vk_to_key(v.vk)
                ELSE [ok |-> FALSE, key |-> "Mapping"]
    IN /\ pc = "live"
       /\ ret' = back
       /\ Record("vk_to_key", k, "none",
                 IF back.ok THEN Returned ELSE Thrown("Mapping"))
       /\ roundTrip' = FALSE
       /\ UNCHANGED <<held_keys, held_scancodes, lastPress, config, pc, dtor>>

\* text() on the std::string of one character
CallTextUtf8 ==
  /\ pc = "live"
  /\ \E cp \in Codepoints, buffer \in BufferValues, sinkOk \in BOOLEAN :
       text(Utf8(cp), buffer, sinkOk)
  /\ UNCHANGED <<config, ret, pc, dtor>>

\* a caller classifying a virtual-key code
ClassifyVk ==
  \E vk \in 0..255 :
    /\ pc = "live"
    /\ ret' = [ok |-> TRUE, extended |-> is_extended_key(vk)]
    /\ Record("is_extended_key", vk, "none", Returned)
    /\ roundTrip' = FALSE
    /\ UNCHANGED <<held_keys, held_scancodes, lastPress, config, pc, dtor>>

\* key(k, Click) for any Key
ClickAnyKey ==
  /\ pc = "live"
  /\ \E k \in Keys, sinkOk \in BOOLEAN : key(k, "Click", sinkOk)
  /\ UNCHANGED <<config, ret, pc, dtor>>

CallKey == CallKeyOf(CallKeys, MaxHeld)
CallRaw == CallRawOf(CallScans, MaxHeldScans)
CallText == CallTextOf(TextChars, MaxTextLen)

(***************************************************************************)
(* Bego::~Bego.  The range-for loops cache begin() and end() once; the     *)
(* key()/raw() call of an iteration erases from the vector being walked.   *)
(* After an erase the storage past the new size keeps what std::remove     *)
(* left there, and the loop goes on reading it up to the cached end: an    *)
(* unchecked build reads those slots, a build with checked iterators       *)
(* stops the program at the next use of the invalidated iterator.          *)
(***************************************************************************)
\* storage of a vector after erase(remove(..)): the live prefix, then the
\* old contents of the slots past the new size
StorageAfter(storage, v) ==
  v \o SubSeq(storage, Len(v) + 1, Len(storage))

\* variant of DtorBegin: the destructor does not look at
\* release_keys_when_dropped
DtorBegin_IgnoresFlag ==
  /\ pc = "live"
  /\ atStart' = held
  /\ attempts' = <<>>
  /\ pc' = "keys"
  /\ it' = 0
  /\ end0' = Len(held_keys)
  /\ buf' = held_keys
  /\ orphaned' = FALSE
  /\ sent' = <<>>
  /\ lastOp' = [op |-> "~Bego", id |-> 0, dir |-> "none", result |-> "none"]
  /\ roundTrip' = FALSE
  /\ before' = held
  /\ UNCHANGED <<held_keys, held_scancodes, lastPress, config, ret>>

\* the first statement of ~Bego: return at once unless
\* release_keys_when_dropped, else enter the loop over held_keys
DtorBegin ==
  /\ pc = "live"
  /\ atStart' = held
  /\ attempts' = <<>>
  /\ IF ~release_keys_when_dropped
       THEN /\ pc' = "done"
            /\ UNCHANGED <<it, end0, buf, orphaned>>
       ELSE /\ pc' = "keys"
            /\ it' = 0
            /\ end0' = Len(held_keys)
            /\ buf' = held_keys
            /\ orphaned' = FALSE
  /\ sent' = <<>>
  /\ lastOp' = [op |-> "~Bego", id |-> 0, dir |-> "none", result |-> "none"]
  /\ roundTrip' = FALSE
  /\ before' = held
  /\ UNCHANGED <<held_keys, held_scancodes, lastPress, config, ret>>

\* one iteration of "for (const auto& key : held_keys)"
DtorReleaseKey ==
  /\ pc = "keys"
  /\ it < end0
  /\ \E sinkOk \in BOOLEAN :
       /\ key(buf[it + 1], "Release", sinkOk)
       /\ attempts' = Append(attempts, [kind |-> "key", id |-> buf[it + 1],
                                        ok |-> sinkOk])
  /\ buf' = StorageAfter(buf, held_keys')
  /\ orphaned' = (orphaned \/ Len(held_keys') < Len(held_keys))
  /\ it' = it + 1
  /\ UNCHANGED <<config, ret, pc, end0, atStart>>

\* the key loop ends; the scan-code loop caches its own begin() and end()
DtorKeysDone ==
  /\ pc = "keys"
  /\ it = end0
  /\ pc' = "scans"
  /\ it' = 0
  /\ end0' = Len(held_scancodes)
  /\ buf' = held_scancodes
  /\ orphaned' = FALSE
  /\ UNCHANGED <<held_keys, held_scancodes, lastPress, config, ret, sent, lastOp, roundTrip,
                 before, atStart, attempts>>

\* one iteration of "for (const auto& scan : held_scancodes)"
DtorReleaseScan ==
  /\ pc = "scans"
  /\ it < end0
  /\ \E sinkOk \in BOOLEAN :
       /\ raw(buf[it + 1], "Release", sinkOk)
       /\ attempts' = Append(attempts, [kind |-> "raw", id |-> buf[it + 1],
                                        ok |-> sinkOk])
  /\ buf' = StorageAfter(buf, held_scancodes')
  /\ orphaned' = (orphaned \/ Len(held_scancodes') < Len(held_scancodes))
  /\ it' = it + 1
  /\ UNCHANGED <<config, ret, pc, end0, atStart>>

DtorScansDone ==
  /\ pc = "scans"
  /\ it = end0
  /\ pc' = "done"
  /\ UNCHANGED <<held_keys, held_scancodes, lastPress, config, ret, sent, lastOp, roundTrip,
                 before, dtor>>

\* a checked-iterator build: the loop test on an invalidated iterator
DtorAbort ==
  /\ pc \in {"keys", "scans"}
  /\ orphaned
  /\ pc' = "aborted"
  /\ UNCHANGED <<held_keys, held_scancodes, lastPress, config, ret, sent, lastOp, roundTrip,
                 before, dtor>>

(***************************************************************************)
(* The life of one instance: key() and raw() calls, then destruction.      *)
(***************************************************************************)
Next ==
  \/ CallKey
  \/ CallRaw
  \/ DtorBegin
  \/ DtorReleaseKey
  \/ DtorKeysDone
  \/ DtorReleaseScan
  \/ DtorScansDone
  \/ DtorAbort

Spec == Init /\ [][Next]_vars

(***************************************************************************)
(* Every public operation of a live instance, over few arguments each.     *)
(***************************************************************************)
MaxHeldCalls == 1   \* longest held vector explored among all operations
CallsNext ==
  \/ CallKeyOf({"Up", InvalidKey}, MaxHeldCalls)
  \/ CallRawOf({30}, MaxHeldCalls)
  \/ CallTextOf({0, 10, 65}, MaxTextLen)
  \/ CallButtonOf({"Left", "Back", "ScrollUp", InvalidButton})
  \/ CallScrollOf({3})
  \/ CallMoveOf({-1, 2}, {1}, {<<0, 0>>, <<4, 3>>})

SpecCalls == Init /\ [][CallsNext]_vars

(***************************************************************************)
(* Every public operation of a live instance, then its destruction.        *)
(***************************************************************************)
\* Bego::held: a copy of both vectors is returned
CallHeld ==
  /\ pc = "live"
  /\ ret' = held
  /\ Record("held", 0, "none", Returned)
  /\ roundTrip' = FALSE
  /\ UNCHANGED <<held_keys, held_scancodes, lastPress, config, pc, dtor>>

LifeNext ==
  \/ CallsNext
  \/ CallHeld
  \/ DtorBegin
  \/ DtorReleaseKey
  \/ DtorKeysDone
  \/ DtorReleaseScan
  \/ DtorScansDone
  \/ DtorAbort

SpecLife == Init /\ [][LifeNext]_vars

(***************************************************************************)
(* raw() alone: the scan code of 'A', the extended scan code of the Up     *)
(* arrow (0xE048), and a scan code the layout does not map.                *)
(***************************************************************************)
RawScans == {30, 57416, 99}
CallRawScans == CallRawOf(RawScans, MaxHeldScans)
SpecRaw == Init /\ [][CallRawScans]_vars

(***************************************************************************)
(* The extended-key predicate over every WORD below 256, and the events    *)
(* key() builds for every Key.                                             *)
(***************************************************************************)
ExtNext ==
  \/ ClassifyVk
  \/ ClickAnyKey

SpecExt == Init /\ [][ExtNext]_vars

(***************************************************************************)
(* text() alone, over every string of the explored characters.             *)
(***************************************************************************)
SpecText == Init /\ [][CallText]_vars

(***************************************************************************)
(* text() on single characters of one to four bytes.                       *)
(***************************************************************************)
SpecUnicode == Init /\ [][CallTextUtf8]_vars

(***************************************************************************)
(* The three mouse operations of a live instance.                          *)
(***************************************************************************)
CallButton == CallButtonOf(Buttons \cup {InvalidButton})
CallScroll == CallScrollOf(ScrollLengths)
CallMove == CallMoveOf(MoveXs, MoveYs, Displays)
MouseNext ==
  \/ CallButton
  \/ CallScroll
  \/ CallMove

SpecMouse == Init /\ [][MouseNext]_vars

(***************************************************************************)
(* The two key converters, over every Key.                                 *)
(***************************************************************************)
SpecConv == Init /\ [][ConvertKey]_vars

(***************************************************************************)
(* Properties.                                                             *)
(***************************************************************************)
NoDuplicates(v) == \A i, j \in 1..Len(v) : v[i] = v[j] => i = j
IsKeyboardCall == lastOp.op \in {"key", "raw"}
\* the held vector the last key() or raw() call works on, before and after
BeforeOfLast == IF lastOp.op = "key" THEN before.keys ELSE before.scans
Failed == lastOp.result \in {"Simulate", "InvalidInput", "Mapping"}
AutoReleaseDone == pc = "done" /\ release_keys_when_dropped
Attempted(kind, id) ==
  \E i \in 1..Len(attempts) : attempts[i].kind = kind /\ attempts[i].id = id
AttemptCount(kind, id) ==
  Cardinality({i \in 1..Len(attempts) :
                 attempts[i].kind = kind /\ attempts[i].id = id})
EveryHeldAttempted ==
  /\ \A k \in Range(atStart.keys) : Attempted("key", k)
  /\ \A s \in Range(atStart.scans) : Attempted("raw", s)

\* C1: held() never lists a KeyId twice nor a scan code twice, whatever
\* key() and raw() calls were made.
C1_NoDuplicates ==
  NoDuplicates(held_keys) /\ NoDuplicates(held_scancodes)

\* C2: when the destructor of an auto-releasing instance has run, a Release
\* was attempted for every KeyId and every scan code held at its start, all
\* KeyId releases before the first scan-code release.
C2_TeardownReleasesAll ==
  AutoReleaseDone =>
    /\ EveryHeldAttempted
    /\ \A i, j \in 1..Len(attempts) :
         (attempts[i].kind = "key" /\ attempts[j].kind = "raw") => i < j

\* C3: when the destructor of an auto-releasing instance has run, exactly
\* one Release was attempted for each identifier held at its start and none
\* for any other identifier.
C3_ExactlyOneRelease ==
  AutoReleaseDone =>
    /\ \A k \in CallKeys :
         AttemptCount("key", k) = (IF k \in Range(atStart.keys) THEN 1 ELSE 0)
    /\ \A s \in CallScans :
         AttemptCount("raw", s) = (IF s \in Range(atStart.scans) THEN 1 ELSE 0)

\* C4: when a Release attempt of the destructor failed, the destructor still
\* completes with a Release attempted for every entry held at its start.
C4_BestEffort ==
  (AutoReleaseDone /\ \E i \in 1..Len(attempts) : ~attempts[i].ok) =>
    EveryHeldAttempted

\* C5: a key() or raw() call that fails reports its error and leaves held()
\* exactly as it was when the call began.
C5_FailureLeavesHeld ==
  (IsKeyboardCall /\ Failed) => held = before
C5_Witness ==
  /\ lastOp.op = "key"
  /\ lastOp.dir = "Release"
  /\ lastOp.result = "Simulate"
  /\ lastOp.id \in Range(held_keys)

\* C6: every public operation hands its batch to the sink in at most one
\* call; an operation that fails while building its batch hands over
\* nothing, and the one call carries the whole batch (two descriptors for a
\* key, scan-code or button Click, two per character for text).
C6_OneSinkCall ==
  lastOp.op \in {"key", "raw", "text", "button", "scroll", "move_mouse"} =>
    /\ Len(sent) <= 1
    /\ (sent = <<>>) = (lastOp.sink = "unused")
    /\ lastOp.result \in {"InvalidInput", "Mapping"} => sent = <<>>
    /\ (sent # <<>> /\ lastOp.op = "text") =>
         Len(sent[1]) = 2 * Len(lastOp.id)
    /\ (sent # <<>> /\ lastOp.op \in {"key", "raw"}) =>
         Len(sent[1]) = (IF lastOp.dir = "Click" THEN 2 ELSE 1)
    /\ (sent # <<>> /\ lastOp.op = "button" /\ lastOp.id \notin ScrollButtons) =>
         Len(sent[1]) = (IF lastOp.dir = "Click" THEN 2 ELSE 1)
C6_Witness ==
  /\ lastOp.op = "button"
  /\ lastOp.id = "Back"
  /\ lastOp.dir = "Click"
  /\ lastOp.result = "ok"
  /\ Len(sent) = 1
  /\ Len(sent[1]) = 2

\* C7: a Release of a KeyId or scan code that is not held leaves both held
\* vectors unchanged and fails only if the sink refuses the batch.
C7_ReleaseOfNotHeld ==
  (/\ IsKeyboardCall
   /\ lastOp.dir = "Release"
   /\ (lastOp.op = "raw" \/ lastOp.id \in Keys)
   /\ lastOp.id \notin Range(BeforeOfLast)) =>
    /\ held = before
    /\ lastOp.sink = "ok" => lastOp.result = "ok"
    /\ lastOp.sink # "unused"
C7_Witness ==
  /\ lastOp.op = "key"
  /\ lastOp.dir = "Release"
  /\ lastOp.result = "ok"
  /\ lastOp.id \notin Range(before.keys)
  /\ before.keys # <<>>
  /\ pc = "live"

\* C8: a successful Press of an identifier that is not held, followed by a
\* successful Release of the same identifier, restores held() to what it
\* was before the Press.
C8_PressThenReleaseRestores ==
  [][(/\ IsKeyboardCall
      /\ lastOp.dir = "Press"
      /\ lastOp.result = "ok"
      /\ lastOp.id \notin Range(BeforeOfLast)
      /\ lastOp'.op = lastOp.op
      /\ lastOp'.id = lastOp.id
      /\ lastOp'.dir = "Release"
      /\ lastOp'.result = "ok") => held' = before]_vars
C8_Witness ==
  /\ roundTrip
  /\ lastOp.op = "key"
  /\ held_scancodes # <<>>
  /\ held_keys # <<>>

\* C9: a Click through key() or raw() leaves held() as it was when the call
\* began, whether or not the identifier is held.
C9_ClickLeavesHeld ==
  (IsKeyboardCall /\ lastOp.dir = "Click") => held = before
C9_Witness ==
  /\ lastOp.op = "key"
  /\ lastOp.dir = "Click"
  /\ lastOp.result = "ok"
  /\ lastOp.id \in Range(held_keys)

\* C10: text() on a string with a null character at any position fails
\* with InvalidInput and hands nothing to the sink.
C10_NullRejected ==
  (lastOp.op = "text" /\ 0 \in Range(lastOp.id)) =>
    /\ lastOp.result = "InvalidInput"
    /\ sent = <<>>
C10_Witness ==
  /\ lastOp.op = "text"
  /\ lastOp.id = <<65, 0>>
  /\ lastOp.result = "InvalidInput"

\* the down descriptor text() queues for the char c: the Return or Tab key
\* for a line break or a tab, else the UTF-16 code unit of c
IsDownOf(e, c) ==
  /\ e.type = "keyboard"
  /\ "KEYUP" \notin e.flags
  /\ IF c \in {10, 13} THEN e.vk = 13 /\ "UNICODE" \notin e.flags
     ELSE IF c = 9 THEN e.vk = 9 /\ "UNICODE" \notin e.flags
     ELSE e.vk = 0 /\ e.flags = {"UNICODE"} /\ e.scan = c % 65536
\* the batch the last text() call handed over, <<>> if it handed over none
LastBatch == IF sent = <<>> THEN <<>> ELSE sent[1]

C12_RoundTrip ==
  (lastOp.op = "vk_to_key" /\ lastOp.id \in Keys \ {"Unicode"}) =>
    ret = [ok |-> TRUE, key |-> lastOp.id]
C12_Witness ==
  /\ lastOp.op = "vk_to_key"
  /\ lastOp.id = "RightAlt"
  /\ ret = [ok |-> TRUE, key |-> "RightAlt"]

IsMove == lastOp.op = "move_mouse"
\* the last call was an absolute move to a point of a display of at least
\* two pixels each way
AbsInRange ==
  /\ IsMove
  /\ lastOp.id.coordinate = "Abs"
  /\ lastOp.id.display[1] >= 2
  /\ lastOp.id.display[2] >= 2
  /\ lastOp.id.x \in 0..(lastOp.id.display[1] - 1)
  /\ lastOp.id.y \in 0..(lastOp.id.display[2] - 1)
\* the only descriptor the last call handed over
TheEvent == sent[1][1]
OneEvent == Len(sent) = 1 /\ Len(sent[1]) = 1

\* C13: an absolute move to a point of the display hands over coordinates
\* within 0..65535, and a second call with the same arguments, display and
\* cursor hands over the same descriptor.
C13_InRangeAndRepeatable ==
  [][/\ AbsInRange' =>
          /\ OneEvent'
          /\ TheEvent'.dx \in 0..65535
          /\ TheEvent'.dy \in 0..65535
     /\ (IsMove /\ IsMove' /\ lastOp'.id = lastOp.id) => sent' = sent]_vars
C13_Witness ==
  /\ AbsInRange
  /\ lastOp.id.display = <<2, 2>>
  /\ lastOp.id.x = 1
  /\ OneEvent
  /\ TheEvent.dx = 65535

\* C14: scroll(n, Vertical) hands over exactly one vertical-wheel descriptor
\* with payload -n * 120, scroll(n, Horizontal) exactly one horizontal-wheel
\* descriptor with payload n * 120.
C14_ScrollPayload ==
  lastOp.op = "scroll" =>
    /\ OneEvent
    /\ TheEvent.type = "mouse"
    /\ IF lastOp.id[2] = "Vertical"
         THEN /\ TheEvent.flags = {"WHEEL"}
              /\ TheEvent.data = -(lastOp.id[1] * WHEEL_DELTA)
         ELSE /\ TheEvent.flags = {"HWHEEL"}
              /\ TheEvent.data = lastOp.id[1] * WHEEL_DELTA
C14_Witness ==
  /\ lastOp.op = "scroll"
  /\ lastOp.id = <<3, "Vertical">>
  /\ OneEvent
  /\ TheEvent.data = -360

\* the scroll call a pseudo-button stands for
PseudoAmount(b) == IF b \in {"ScrollUp", "ScrollLeft"} THEN -1 ELSE 1
PseudoAxis(b) ==
  IF b \in {"ScrollUp", "ScrollDown"} THEN "Vertical" ELSE "Horizontal"

\* C15: a Click or Press of a scroll pseudo-button hands over what the
\* scroll call it stands for hands over, a wheel descriptor and no button
\* down or up; a Release of one hands over nothing.
C15_PseudoButtons ==
  (lastOp.op = "button" /\ lastOp.id \in ScrollButtons) =>
    IF lastOp.dir \in {"Click", "Press"}
      THEN /\ sent = scroll(PseudoAmount(lastOp.id), PseudoAxis(lastOp.id),
                            dw_extra_info, TRUE).calls
           /\ OneEvent
           /\ TheEvent.flags \subseteq {"WHEEL", "HWHEEL"}
      ELSE sent = <<>> /\ lastOp.result = "ok"
C15_Witness ==
  /\ lastOp.op = "button"
  /\ lastOp.id = "ScrollUp"
  /\ lastOp.dir = "Click"
  /\ OneEvent
  /\ TheEvent.flags = {"WHEEL"}
  /\ TheEvent.data = 120

\* n is num / w as C++ computes it for w > 0: the quotient truncated toward
\* zero, stated by the products that bracket num
IsTruncatedQuotient(n, num, w) ==
  IF num >= 0 THEN n * w <= num /\ num < (n + 1) * w
  ELSE (n - 1) * w < num /\ num <= n * w
Sign(v) == IF v >= 0 THEN 1 ELSE -1
\* the last call was an absolute move on a display of at least two pixels
\* each way, to any point
AbsOnDisplay ==
  /\ IsMove
  /\ lastOp.id.coordinate = "Abs"
  /\ lastOp.id.display[1] >= 2
  /\ lastOp.id.display[2] >= 2

\* C16: without acceleration a relative move by (x, y) from the pointer
\* position (cx, cy) hands over exactly what the absolute move to
\* (cx + x, cy + y) hands over: on a display of two pixels or more each way,
\* one move descriptor with the absolute flag and the normalized
\* coordinates of that point.
C16_RelIsAbsFromCursor ==
  (/\ IsMove
   /\ lastOp.id.coordinate = "Rel"
   /\ ~windows_subject_to_mouse_speed_and_acceleration_level
   /\ lastOp.id.cursor.ok) =>
    LET tx == lastOp.id.cursor.x + lastOp.id.x
        ty == lastOp.id.cursor.y + lastOp.id.y
        w == lastOp.id.display[1] - 1
        h == lastOp.id.display[2] - 1
    IN /\ sent = move_mouse(tx, ty, "Abs", lastOp.id.display,
                            lastOp.id.cursor, FALSE, dw_extra_info,
                            TRUE).calls
       /\ (w >= 1 /\ h >= 1) =>
            /\ OneEvent
            /\ TheEvent.flags = {"MOVE", "ABSOLUTE"}
            /\ IsTruncatedQuotient(TheEvent.dx,
                                   tx * 65535 + (w \div 2) * Sign(tx), w)
            /\ IsTruncatedQuotient(TheEvent.dy,
                                   ty * 65535 + (h \div 2) * Sign(ty), h)
C16_Witness ==
  /\ IsMove
  /\ lastOp.id.coordinate = "Rel"
  /\ ~windows_subject_to_mouse_speed_and_acceleration_level
  /\ lastOp.id.cursor = [ok |-> TRUE, x |-> 1, y |-> 1]
  /\ lastOp.id.x = 3
  /\ lastOp.id.display = <<5, 4>>
  /\ OneEvent
  /\ TheEvent.dx = 65535

\* C19 as stated: each normalized coordinate is
\* (v * 65535 + (dim / 2) * sign(v)) / (dim - 1), truncated toward zero.
C19_HalfOfDim ==
  AbsOnDisplay =>
    /\ OneEvent
    /\ IsTruncatedQuotient(TheEvent.dx,
         lastOp.id.x * 65535
           + (lastOp.id.display[1] \div 2) * Sign(lastOp.id.x),
         lastOp.id.display[1] - 1)
    /\ IsTruncatedQuotient(TheEvent.dy,
         lastOp.id.y * 65535
           + (lastOp.id.display[2] \div 2) * Sign(lastOp.id.y),
         lastOp.id.display[2] - 1)

\* C19 amended: each normalized coordinate is
\* (v * 65535 + ((dim - 1) / 2) * sign(v)) / (dim - 1), both divisions
\* truncated toward zero, for v of either sign.
C19_HalfOfDimLessOne ==
  AbsOnDisplay =>
    /\ OneEvent
    /\ IsTruncatedQuotient(TheEvent.dx,
         lastOp.id.x * 65535
           + ((lastOp.id.display[1] - 1) \div 2) * Sign(lastOp.id.x),
         lastOp.id.display[1] - 1)
    /\ IsTruncatedQuotient(TheEvent.dy,
         lastOp.id.y * 65535
           + ((lastOp.id.display[2] - 1) \div 2) * Sign(lastOp.id.y),
         lastOp.id.display[2] - 1)
C19_Witness ==
  /\ AbsOnDisplay
  /\ lastOp.id.display = <<5, 4>>
  /\ lastOp.id.x = -1
  /\ lastOp.id.y = -1
  /\ OneEvent
  /\ TheEvent.dx = -16384
  /\ TheEvent.dy = -21845

\* C17: once an instance whose release_keys_when_dropped is false is being
\* destroyed, the destructor is over at once: no Release was attempted,
\* nothing was handed to the sink, and held() is what it was.
C17_NoReleaseWithoutFlag ==
  (pc # "live" /\ ~release_keys_when_dropped) =>
    /\ pc = "done"
    /\ attempts = <<>>
    /\ sent = <<>>
    /\ lastOp.op = "~Bego"
    /\ held = atStart
C17_Witness ==
  /\ pc = "done"
  /\ ~release_keys_when_dropped
  /\ Len(held_keys) >= 2
  /\ held_scancodes # <<>>
  /\ attempts = <<>>

\* every descriptor of every batch handed over by the last call
SentEvents == UNION {Range(sent[i]) : i \in 1..Len(sent)}

\* C18: every descriptor handed over by any operation, the destructor's
\* releases included, carries get_marker_value(); that value is the marker
\* of the Settings the instance was built with (EVENT_MARKER when that is
\* 0) at every moment of the instance's life, 0x12345678 for default
\* Settings.
C18_MarkerOnEveryEvent ==
  /\ \A e \in SentEvents : e.extra = get_marker_value
  /\ get_marker_value =
       (IF settings.windows_dw_extra_info # 0
          THEN settings.windows_dw_extra_info ELSE EVENT_MARKER)
  /\ settings = DefaultSettings => get_marker_value = 305419896
C18_Witness ==
  /\ pc = "scans"
  /\ Len(attempts) = 2
  /\ lastOp.op = "raw"
  /\ settings.windows_dw_extra_info = 7
  /\ SentEvents # {}
  /\ \A e \in SentEvents : e.extra = 7

\* UTF-16 of a codepoint of 0x10000 or more
HighSurrogate(cp) == 55296 + ((cp - 65536) \div 1024)
LowSurrogate(cp) == 56320 + ((cp - 65536) % 1024)
\* down and up of one code unit by Unicode injection
UnitDownUp(unit) ==
  << create_keybd_event({"UNICODE"}, 0, unit, dw_extra_info),
     create_keybd_event({"UNICODE", "KEYUP"}, 0, unit, dw_extra_info) >>

\* C20: text() on a character of codepoint 0x10000 or more hands over four
\* descriptors: down and up of the high surrogate of that codepoint, then
\* down and up of its low surrogate, all Unicode-injected with virtual-key
\* code 0.
C20_SurrogatePair ==
  \A cp \in Codepoints :
    (cp >= 65536 /\ lastOp.op = "text" /\ lastOp.id = Utf8(cp)) =>
      sent = << UnitDownUp(HighSurrogate(cp))
                \o UnitDownUp(LowSurrogate(cp)) >>

IsDown(e) == "KEYUP" \notin e.flags
IsUp(e) == "KEYUP" \in e.flags

\* C21: a key() call that maps its key hands over one batch: a down
\* descriptor first iff the direction is Press or Click, an up descriptor
\* last iff it is Release or Click, nothing else; the up of a Click is its
\* down with the key-up flag added, so both carry the same virtual-key
\* code, scan code and extended flag.
C21_KeyBatch ==
  (lastOp.op = "key" /\ lastOp.result # "Mapping") =>
    /\ Len(sent) = 1
    /\ Len(LastBatch) = (IF lastOp.dir = "Click" THEN 2 ELSE 1)
    /\ \A i \in 1..Len(LastBatch) :
         /\ LastBatch[i].type = "keyboard"
         /\ LastBatch[i].vk = key_to_vk(lastOp.id).vk
    /\ lastOp.dir \in {"Press", "Click"} => IsDown(LastBatch[1])
    /\ lastOp.dir \in {"Release", "Click"} => IsUp(LastBatch[Len(LastBatch)])
    /\ lastOp.dir = "Click" =>
         LastBatch[2] = [LastBatch[1] EXCEPT !.flags = @ \cup {"KEYUP"}]
C21_Witness ==
  /\ lastOp.op = "key"
  /\ lastOp.id = "Up"
  /\ lastOp.dir = "Click"
  /\ Len(sent) = 1
  /\ Len(LastBatch) = 2
  /\ LastBatch[1].flags = {"EXTENDEDKEY"}
  /\ LastBatch[2].flags = {"EXTENDEDKEY", "KEYUP"}

\* C22: raw(s, d) hands over one batch with the down/up policy of key();
\* every descriptor has the scan-code flag, scan code s, the virtual-key
\* code the layout gives for s, and the extended flag exactly when that
\* code is an extended key.
C22_RawEvents ==
  lastOp.op = "raw" =>
    LET vk == LayoutVscToVk(lastOp.id)
        flags == {"SCANCODE"} \cup
                 (IF is_extended_key(vk) THEN {"EXTENDEDKEY"} ELSE {})
        down == [type |-> "keyboard", flags |-> flags, vk |-> vk,
                 scan |-> lastOp.id, extra |-> dw_extra_info]
        up == [down EXCEPT !.flags = flags \cup {"KEYUP"}]
    IN sent = << CASE lastOp.dir = "Press" -> <<down>>
                   [] lastOp.dir = "Release" -> <<up>>
                   [] lastOp.dir = "Click" -> <<down, up>> >>
C22_Witness ==
  /\ lastOp.op = "raw"
  /\ lastOp.id = 57416
  /\ lastOp.dir = "Click"
  /\ Len(LastBatch) = 2
  /\ LastBatch[1].flags = {"SCANCODE", "EXTENDEDKEY"}
  /\ LastBatch[1].vk = 38
  /\ LastBatch[2].flags = {"SCANCODE", "EXTENDEDKEY", "KEYUP"}

\* the flag and payload the claim gives each real button
ButtonDownFlag ==
  [Left |-> "LEFTDOWN", Middle |-> "MIDDLEDOWN", Right |-> "RIGHTDOWN",
   Back |-> "XDOWN", Forward |-> "XDOWN"]
ButtonUpFlag ==
  [Left |-> "LEFTUP", Middle |-> "MIDDLEUP", Right |-> "RIGHTUP",
   Back |-> "XUP", Forward |-> "XUP"]
ButtonPayload ==
  [Left |-> 0, Middle |-> 0, Right |-> 0, Back |-> 1, Forward |-> 2]

\* C23: button(b, d) for a real button hands over one batch: for Press the
\* button's down flag, for Release its up flag, for Click the down then the
\* up; Left, Middle and Right with payload 0, Back with 1 and Forward with
\* 2 on the extended-button flags, on down and up alike.
C23_ButtonEvents ==
  (lastOp.op = "button" /\ lastOp.id \in DOMAIN ButtonPayload) =>
    LET b == lastOp.id
        down == [type |-> "mouse", flags |-> {ButtonDownFlag[b]},
                 data |-> ButtonPayload[b], dx |-> 0, dy |-> 0,
                 extra |-> dw_extra_info]
        up == [down EXCEPT !.flags = {ButtonUpFlag[b]}]
    IN sent = << CASE lastOp.dir = "Press" -> <<down>>
                   [] lastOp.dir = "Release" -> <<up>>
                   [] lastOp.dir = "Click" -> <<down, up>> >>
C23_Witness ==
  /\ lastOp.op = "button"
  /\ lastOp.id = "Forward"
  /\ lastOp.dir = "Click"
  /\ Len(LastBatch) = 2
  /\ LastBatch[1].flags = {"XDOWN"}
  /\ LastBatch[2].flags = {"XUP"}
  /\ LastBatch[2].data = 2

\* the two descriptors text() owes the char c: the click of the Return key
\* (scan code 0x1C) for a newline or a carriage return, of the Tab key
\* (0x0F) for a tab, else the injection of the code unit of c
ClickOf(vk, scan) ==
  << [type |-> "keyboard", flags |-> {}, vk |-> vk, scan |-> scan,
      extra |-> dw_extra_info],
     [type |-> "keyboard", flags |-> {"KEYUP"}, vk |-> vk, scan |-> scan,
      extra |-> dw_extra_info] >>
TypedAs(c) ==
  IF c \in {10, 13} THEN ClickOf(13, 28)
  ELSE IF c = 9 THEN ClickOf(9, 15)
  ELSE << [type |-> "keyboard", flags |-> {"UNICODE"}, vk |-> 0,
           scan |-> c % 65536, extra |-> dw_extra_info],
          [type |-> "keyboard", flags |-> {"UNICODE", "KEYUP"}, vk |-> 0,
           scan |-> c % 65536, extra |-> dw_extra_info] >>

\* C24: in the batch of a text() call on a string without a null character
\* the i-th char is found at places 2i-1 and 2i: a newline or a carriage
\* return as a click of the Return key, a tab as a click of the Tab key,
\* both without the Unicode flag, any other char with the Unicode flag and
\* virtual-key code 0.
C24_SpecialChars ==
  (lastOp.op = "text" /\ lastOp.id # <<>> /\ 0 \notin Range(lastOp.id)) =>
    /\ Len(sent) = 1
    /\ Len(sent[1]) = 2 * Len(lastOp.id)
    /\ \A i \in 1..Len(lastOp.id) :
         SubSeq(sent[1], 2 * i - 1, 2 * i) = TypedAs(lastOp.id[i])
C24_Witness ==
  /\ lastOp.op = "text"
  /\ lastOp.id = <<13, 65>>
  /\ Len(sent) = 1
  /\ SubSeq(sent[1], 1, 2) = ClickOf(13, 28)
  /\ sent[1][3].flags = {"UNICODE"}

VK_NUMLOCK == 144
NavigationKeys == {"Up", "Down", "Left", "Right", "Home", "End", "PageUp",
                   "PageDown", "Insert", "Delete"}
CodesOf(keys) == {key_map[k] : k \in keys}
\* the codes the claim names, with every right-side modifier key
ExtendedAsStated ==
  CodesOf(NavigationKeys)
  \cup CodesOf({"RightControl", "RightAlt", "RightShift", "RightSuper"})
  \cup {VK_NUMLOCK} \cup CodesOf({"PrintScreen", "NumpadDivide"})
\* the same with the right-side Control and Alt only
ExtendedAmended ==
  CodesOf(NavigationKeys) \cup CodesOf({"RightControl", "RightAlt"})
  \cup {VK_NUMLOCK} \cup CodesOf({"PrintScreen", "NumpadDivide"})
\* is_extended_key answers by membership in codes, and key() flags its
\* descriptors by the same membership of the key's code
ExtendedExactly(codes) ==
  /\ lastOp.op = "is_extended_key" =>
       ret = [ok |-> TRUE, extended |-> (lastOp.id \in codes)]
  /\ (lastOp.op = "key" /\ lastOp.result # "Mapping") =>
       /\ SentEvents # {}
       /\ \A e \in SentEvents :
            ("EXTENDEDKEY" \in e.flags) <=> (key_to_vk(lastOp.id).vk \in codes)

C26_RelWithAcceleration ==
  (/\ IsMove
   /\ lastOp.id.coordinate = "Rel"
   /\ windows_subject_to_mouse_speed_and_acceleration_level) =>
    /\ sent = << << [type |-> "mouse", flags |-> {"MOVE"}, data |-> 0,
                     dx |-> lastOp.id.x, dy |-> lastOp.id.y,
                     extra |-> dw_extra_info] >> >>
    /\ lastOp.sink # "unused"
C26_Witness ==
  /\ IsMove
  /\ lastOp.id.coordinate = "Rel"
  /\ windows_subject_to_mouse_speed_and_acceleration_level
  /\ ~lastOp.id.cursor.ok
  /\ lastOp.id.display = <<0, 0>>
  /\ lastOp.id.x = -3
  /\ lastOp.result = "ok"
  /\ OneEvent
  /\ TheEvent.dx = -3

\* the display query of the last move fails: a width or a height of 0
DisplayFails == lastOp.id.display[1] = 0 \/ lastOp.id.display[2] = 0

\* C27: an absolute move whose display query fails, and a relative move
\* without acceleration whose pointer query fails, end with a Simulate
\* error before anything is handed to the sink.
C27_QueryFailures ==
  (/\ IsMove
   /\ \/ lastOp.id.coordinate = "Abs" /\ DisplayFails
      \/ /\ lastOp.id.coordinate = "Rel"
         /\ ~windows_subject_to_mouse_speed_and_acceleration_level
         /\ ~lastOp.id.cursor.ok) =>
    /\ lastOp.result = "Simulate"
    /\ lastOp.sink = "unused"
    /\ sent = <<>>
C27_Witness ==
  /\ IsMove
  /\ lastOp.id.coordinate = "Rel"
  /\ ~windows_subject_to_mouse_speed_and_acceleration_level
  /\ ~lastOp.id.cursor.ok
  /\ lastOp.id.display = <<1920, 1080>>
  /\ lastOp.result = "Simulate"
  /\ sent = <<>>

\* C28: a key is in held() exactly when the latest successful Press or
\* Release call of key() for it was a Press, and a scan code likewise for
\* raw(); Click calls and calls that fail do not count.
C28_HeldIffLastPress ==
  /\ Range(held_keys) = lastPress.keys
  /\ Range(held_scancodes) = lastPress.scans
C28_Witness ==
  /\ lastOp.op = "key"
  /\ lastOp.id = "A"
  /\ lastOp.dir = "Release"
  /\ lastOp.result = "ok"
  /\ Len(SelectSeq(before.keys, LAMBDA k : k = "A")) >= 2
  /\ "A" \notin Range(held_keys)
  /\ held_keys # <<>>

\* C29: button(), scroll(), move_mouse(), text() and held() leave held()
\* as it was when the call began, so a pressed mouse button is never
\* listed; and the destructor attempts key() and raw() releases only and
\* hands over keyboard descriptors only.
C29_OnlyKeyboardIsHeld ==
  /\ lastOp.op \in {"button", "scroll", "move_mouse", "text", "held"} =>
       held = before
  /\ lastOp.op = "held" => ret = held
  /\ pc # "live" =>
       /\ \A i \in 1..Len(attempts) : attempts[i].kind \in {"key", "raw"}
       /\ \A e \in SentEvents : e.type = "keyboard"
  /\ Range(held_keys) \subseteq Keys
C29_Witness ==
  /\ lastOp.op = "button"
  /\ lastOp.id = "Left"
  /\ lastOp.dir = "Press"
  /\ lastOp.result = "ok"
  /\ held_keys # <<>>
  /\ held_scancodes # <<>>
  /\ held = before

\* C30: get_marker_value() is never 0: it is 0x12345678 when the Settings
\* the instance was built with carry the marker 0, and the marker of those
\* Settings when that is not 0.
C30_MarkerNeverZero ==
  /\ get_marker_value # 0
  /\ settings.windows_dw_extra_info = 0 => get_marker_value = 305419896
  /\ settings.windows_dw_extra_info # 0 =>
       get_marker_value = settings.windows_dw_extra_info
C30_Witness ==
  /\ settings.windows_dw_extra_info = 0
  /\ get_marker_value = EVENT_MARKER
  /\ lastOp.op = "scroll"
  /\ OneEvent
  /\ TheEvent.extra = 305419896
====
